---- MODULE Spec2Model ----
(***************************************************************************)
(* The docker connection plugin (lib/ansible/plugins/connection/docker.py) *)
(* as a state machine.  A Python string is a sequence of one-character     *)
(* strings, so that splitting, sanitizing, version parsing and the path    *)
(* functions are computed character by character as the code computes      *)
(* them.                                                                   *)
(***************************************************************************)
EXTENDS Integers, Sequences, FiniteSets, TLC

VARIABLES
    version_out,         \* what `docker version` prints (environment)
    format_out,          \* what `docker version --format ...` prints (environment)
    DEFAULT_EXECUTABLE,  \* C.DEFAULT_EXECUTABLE (configuration)
    kwargs,              \* the constructor's keyword arguments: <<>> or <<docker_command>>
    files,               \* the local filesystem: the paths that exist
    phase,               \* "new" | "ready" (constructed) | "failed" (constructor raised)
    docker_cmd,          \* self.docker_cmd
    docker_version,      \* the value _get_docker_version returned: <<v>>, or <<>> if it raised
    can_copy_bothways,   \* self.can_copy_bothways
    connected,           \* self._connected
    last                 \* the call that ran last: arguments, processes, renames, outcome

vars == <<version_out, format_out, DEFAULT_EXECUTABLE, kwargs, files, phase,
          docker_cmd, docker_version, can_copy_bothways, connected, last>>

----------------------------------------------------------------------------
(* Bounds of the model *)

\* longest version: number of dot-separated segments
MaxSegs == 3
\* exit codes of a sub-process range over 0..MaxExit
MaxExit == 1

----------------------------------------------------------------------------
(* Characters and Python's string functions *)

DigitChars == {"0", "1", "2", "3", "4", "5", "6", "7", "8", "9"}
LowerChars == {"a", "b", "c", "d", "e", "f", "g", "h", "i", "j", "k", "l", "m",
               "n", "o", "p", "q", "r", "s", "t", "u", "v", "w", "x", "y", "z"}
UpperChars == {"A", "B", "C", "D", "E", "F", "G", "H", "I", "J", "K", "L", "M",
               "N", "O", "P", "Q", "R", "S", "T", "U", "V", "W", "X", "Y", "Z"}
Whitespace == {" ", "\t", "\n", "\r", "\f"}

\* the characters of the model in ASCII order: ord(c) is the position
AsciiOrder ==
    <<"\t", "\n", "\f", "\r", " ", "'", "-", ".", "/",
      "0", "1", "2", "3", "4", "5", "6", "7", "8", "9", ":", "=",
      "A", "B", "C", "D", "E", "F", "G", "H", "I", "J", "K", "L", "M",
      "N", "O", "P", "Q", "R", "S", "T", "U", "V", "W", "X", "Y", "Z", "_",
      "a", "b", "c", "d", "e", "f", "g", "h", "i", "j", "k", "l", "m",
      "n", "o", "p", "q", "r", "s", "t", "u", "v", "w", "x", "y", "z",
      "{", "}">>

AsciiChars == {AsciiOrder[i] : i \in 1..Len(AsciiOrder)}

OrdTable ==
    [c \in AsciiChars |->
        CHOOSE i \in 1..Len(AsciiOrder) : AsciiOrder[i] = c]

Ord(c) == OrdTable[c]

DigitVal(c) == Ord(c) - Ord("0")

\* the index of the first / last occurrence of character c in s, 0 if none
Find(s, c) ==
    LET from[i \in 1..(Len(s) + 1)] ==
            IF i > Len(s) THEN 0 ELSE IF s[i] = c THEN i ELSE from[i + 1]
    IN  from[1]

RFind(s, c) ==
    LET from[i \in 0..Len(s)] ==
            IF i = 0 THEN 0 ELSE IF s[i] = c THEN i ELSE from[i - 1]
    IN  from[Len(s)]

\* s.startswith(p)
StartsWith(s, p) == Len(s) >= Len(p) /\ SubSeq(s, 1, Len(p)) = p

\* s.split(sep) for a one-character separator: empty pieces are kept
RECURSIVE SplitOn(_, _)
SplitOn(s, sep) ==
    LET i == Find(s, sep) IN
    IF i = 0 THEN <<s>>
    ELSE <<SubSeq(s, 1, i - 1)>> \o SplitOn(SubSeq(s, i + 1, Len(s)), sep)

\* the length of the longest prefix of s whose characters are all in chars
PrefixLen(s, chars) ==
    LET from[i \in 1..(Len(s) + 1)] ==
            IF i > Len(s) THEN Len(s) ELSE IF s[i] \in chars THEN from[i + 1] ELSE i - 1
    IN  from[1]

NonWhitespace == AsciiChars \ Whitespace

\* s.split(): pieces between runs of whitespace, no empty piece
RECURSIVE SplitWhitespace(_)
SplitWhitespace(s) ==
    LET skip == PrefixLen(s, Whitespace)
        rest == SubSeq(s, skip + 1, Len(s))
        word == PrefixLen(rest, NonWhitespace)
    IN  IF rest = <<>> THEN <<>>
        ELSE <<SubSeq(rest, 1, word)>> \o SplitWhitespace(SubSeq(rest, word + 1, Len(rest)))

\* s.rstrip('/')
RECURSIVE RStripSlash(_)
RStripSlash(s) ==
    IF s # <<>> /\ s[Len(s)] = "/" THEN RStripSlash(SubSeq(s, 1, Len(s) - 1)) ELSE s

\* int(s) for a run of digits
RECURSIVE ParseInt(_)
ParseInt(s) ==
    IF s = <<>> THEN 0
    ELSE 10 * ParseInt(SubSeq(s, 1, Len(s) - 1)) + DigitVal(s[Len(s)])

\* str(n) for n >= 0, as format() renders an integer
RECURSIVE IntToStr(_)
IntToStr(n) ==
    IF n < 10 THEN <<AsciiOrder[Ord("0") + n]>>
    ELSE IntToStr(n \div 10) \o <<AsciiOrder[Ord("0") + (n % 10)]>>

\* cmp(a, b) of two strings: by character code, a proper prefix is smaller
RECURSIVE StrCmp(_, _)
StrCmp(a, b) ==
    IF a = <<>> /\ b = <<>> THEN 0
    ELSE IF a = <<>> THEN -1
    ELSE IF b = <<>> THEN 1
    ELSE IF Ord(Head(a)) < Ord(Head(b)) THEN -1
    ELSE IF Ord(Head(a)) > Ord(Head(b)) THEN 1
    ELSE StrCmp(Tail(a), Tail(b))

----------------------------------------------------------------------------
(* os.path *)

\* os.path.dirname(p)
dirname(p) ==
    LET head == SubSeq(p, 1, RFind(p, "/")) IN
    IF head # <<>> /\ \E i \in 1..Len(head) : head[i] # "/"
    THEN RStripSlash(head)
    ELSE head

\* os.path.basename(p)
basename(p) == SubSeq(p, RFind(p, "/") + 1, Len(p))

\* os.path.join(a, b)
join(a, b) ==
    IF StartsWith(b, <<"/">>) THEN b
    ELSE IF a = <<>> \/ a[Len(a)] = "/" THEN a \o b
    ELSE a \o <<"/">> \o b

----------------------------------------------------------------------------
(* distutils.version.LooseVersion, as docker.py uses it *)

CharClass(c) ==
    IF c \in DigitChars THEN "digit"
    ELSE IF c \in LowerChars THEN "lower"
    ELSE IF c = "." THEN "dot"
    ELSE "other"

\* the characters of each class
ClassChars ==
    [k \in {"digit", "lower", "dot", "other"} |-> {c \in AsciiChars : CharClass(c) = k}]

\* component_re.split(vstring) without the empty pieces and the dots:
\* the runs of digits, the runs of lower-case letters and what lies between
RECURSIVE Components(_)
Components(s) ==
    IF s = <<>> THEN <<>>
    ELSE IF Head(s) = "." THEN Components(Tail(s))
    ELSE LET k == PrefixLen(s, ClassChars[CharClass(Head(s))])
         IN  <<SubSeq(s, 1, k)>> \o Components(SubSeq(s, k + 1, Len(s)))

\* a component after the int() attempt: a number, or the string left as it is
Component(s) ==
    IF \A i \in 1..Len(s) : s[i] \in DigitChars
    THEN [num |-> TRUE, n |-> ParseInt(s), s |-> <<>>]
    ELSE [num |-> FALSE, n |-> 0, s |-> s]

\* LooseVersion(vstring).version
LooseVersionParse(vstring) ==
    LET cs == Components(vstring) IN [i \in 1..Len(cs) |-> Component(cs[i])]

\* cmp of two components: numbers by value, strings by character code,
\* and a number below every string
ComponentCmp(x, y) ==
    IF x.num /\ y.num THEN (IF x.n < y.n THEN -1 ELSE IF x.n > y.n THEN 1 ELSE 0)
    ELSE IF x.num THEN -1
    ELSE IF y.num THEN 1
    ELSE StrCmp(x.s, y.s)

\* cmp of two version lists
RECURSIVE ListCmp(_, _)
ListCmp(a, b) ==
    IF a = <<>> /\ b = <<>> THEN 0
    ELSE IF a = <<>> THEN -1
    ELSE IF b = <<>> THEN 1
    ELSE IF ComponentCmp(Head(a), Head(b)) # 0 THEN ComponentCmp(Head(a), Head(b))
    ELSE ListCmp(Tail(a), Tail(b))

\* LooseVersion.__init__ parses only a non-empty string: LooseVersion('') has
\* no attribute `version`, and comparing it raises AttributeError
HasVersion(vstring) == vstring # <<>>

LooseVersionCmp(a, b) == ListCmp(LooseVersionParse(a), LooseVersionParse(b))

----------------------------------------------------------------------------
(* String constants of docker.py *)

S_docker == <<"d", "o", "c", "k", "e", "r">>
S_version == <<"v", "e", "r", "s", "i", "o", "n">>
S_format == <<"-", "-", "f", "o", "r", "m", "a", "t">>
S_template == <<"'", "{", "{", ".", "S", "e", "r", "v", "e", "r", ".",
                "V", "e", "r", "s", "i", "o", "n", "}", "}", "'">>
S_Server_version == <<"S", "e", "r", "v", "e", "r", " ",
                      "v", "e", "r", "s", "i", "o", "n", ":">>
S_exec == <<"e", "x", "e", "c">>
S_i == <<"-", "i">>
S_c == <<"-", "c">>
S_cp == <<"c", "p">>
S_bin_sh == <<"/", "b", "i", "n", "/", "s", "h">>
S_dd_of == <<"d", "d", " ", "o", "f", "=">>
S_bs == <<" ", "b", "s", "=">>
S_1_3 == <<"1", ".", "3">>
S_1_8_0 == <<"1", ".", "8", ".", "0">>

BUFSIZE == 65536

\* self._play_context.remote_addr: the name of the container
remote_addr == <<"w", "e", "b">>

----------------------------------------------------------------------------
(* Sub-processes *)

\* what the environment does with one invocation: the binary cannot be
\* spawned (OSError), or it runs and exits with a code, having written to
\* its output and error streams
SpawnFails == [spawned |-> FALSE, rc |-> 0, stdout |-> <<>>, stderr |-> <<>>]

Exits(rc) ==
    [spawned |-> TRUE, rc |-> rc,
     stdout |-> IF rc = 0 THEN <<"o", "k">> ELSE <<>>,
     stderr |-> IF rc = 0 THEN <<>> ELSE <<"E">> \o IntToStr(rc)]

ProcOutcomes == {SpawnFails} \cup {Exits(rc) : rc \in 0..MaxExit}

\* one invocation as the call log records it: the argument vector, what is
\* connected to the input stream, whether the streams are captured by pipes,
\* and what the environment did
Invocation(argv, stdin, piped, run) ==
    [argv |-> argv, stdin |-> stdin, piped |-> piped,
     spawned |-> run.spawned, rc |-> run.rc]

NoStdin == [kind |-> "inherit", data |-> <<>>]
PipeStdin(in_data) == [kind |-> "pipe", data |-> in_data]
FileStdin(path) == [kind |-> "file", data |-> path]

\* an exception message: the text and the values formatted into it
Msg(text, fmt) == [text |-> text, fmt |-> fmt]
NoMsg == Msg("", <<>>)

----------------------------------------------------------------------------
(* Connection._sanitize_version and Connection._get_docker_version *)

SanitizeKeeps(c) == c \in DigitChars \cup LowerChars \cup UpperChars \cup {"."}

_sanitize_version(version) == SelectSeq(version, SanitizeKeeps)

\* the first line of the output that starts with 'Server version:', 0 if none
ServerVersionLine(lines) ==
    LET from[i \in 1..(Len(lines) + 1)] ==
            IF i > Len(lines) THEN 0
            ELSE IF StartsWith(lines[i], S_Server_version) THEN i
            ELSE from[i + 1]
    IN  from[1]

\* subprocess.check_output: OSError if the binary cannot be spawned,
\* CalledProcessError if it exits non-zero
CheckOutputErr(run) ==
    IF ~run.spawned THEN "OSError"
    ELSE IF run.rc # 0 THEN "CalledProcessError"
    ELSE ""

\* the second invocation is made when the first one succeeded and printed no
\* 'Server version:' line
NeedsSecond(out1, run1) ==
    CheckOutputErr(run1) = "" /\ ServerVersionLine(SplitOn(out1, "\n")) = 0

\* the probe: [err, value, procs]; value is <<v>> when a version is returned
_get_docker_version(cmd0, out1, out2, run1, run2) ==
    LET cmd == <<cmd0, S_version>>
        p1 == Invocation(cmd, NoStdin, FALSE, run1)
        lines == SplitOn(out1, "\n")
        hit == ServerVersionLine(lines)
        new_docker_cmd == <<cmd0, S_version, S_format, S_template>>
        p2 == Invocation(new_docker_cmd, NoStdin, FALSE, run2)
    IN  IF CheckOutputErr(run1) # ""
        THEN [err |-> CheckOutputErr(run1), value |-> <<>>, procs |-> <<p1>>]
        ELSE IF ~NeedsSecond(out1, run1)
        THEN IF Len(SplitWhitespace(lines[hit])) < 3
             THEN [err |-> "IndexError", value |-> <<>>, procs |-> <<p1>>]
             ELSE [err |-> "",
                   value |-> <<_sanitize_version(SplitWhitespace(lines[hit])[3])>>,
                   procs |-> <<p1>>]
        ELSE IF CheckOutputErr(run2) # ""
        THEN [err |-> CheckOutputErr(run2), value |-> <<>>, procs |-> <<p1, p2>>]
        ELSE [err |-> "", value |-> <<_sanitize_version(out2)>>, procs |-> <<p1, p2>>]

----------------------------------------------------------------------------
(* Connection.__init__ *)

\* mutant: the versions compared as plain strings
BelowMinimum_lexicographic(v) == StrCmp(v, S_1_3) < 0

\* LooseVersion(docker_version) < LooseVersion('1.3')
BelowMinimum(v) == LooseVersionCmp(v, S_1_3) < 0

\* mutant: the versions compared as plain strings
AtLeastCopyThreshold_lexicographic(v) == StrCmp(v, S_1_8_0) >= 0

\* LooseVersion(docker_version) >= LooseVersion('1.8.0')
AtLeastCopyThreshold(v) == LooseVersionCmp(v, S_1_8_0) >= 0

MsgTooOld == Msg("docker connection type requires docker 1.3 or higher", <<>>)

\* the capability gate on the probed version: [err, msg, can_copy_bothways]
Gate(v) ==
    IF ~HasVersion(v)
    THEN [err |-> "AttributeError", msg |-> NoMsg, can_copy_bothways |-> FALSE]
    ELSE IF BelowMinimum(v)
    THEN [err |-> "AnsibleError", msg |-> MsgTooOld, can_copy_bothways |-> FALSE]
    ELSE [err |-> "", msg |-> NoMsg, can_copy_bothways |-> AtLeastCopyThreshold(v)]

\* a call as `last` records it
Call(op, args, err, msg, ret, procs, renames) ==
    [op |-> op, args |-> args, err |-> err, msg |-> msg, ret |-> ret,
     procs |-> procs, renames |-> renames]

NoCall == Call("none", <<>>, "", NoMsg, <<>>, <<>>, <<>>)

\* ConnectionBase.__init__ leaves the new object not connected
BaseInitConnected == FALSE

__init__ ==
    /\ phase = "new"
    /\ \E run1 \in ProcOutcomes :
       \E run2 \in IF NeedsSecond(version_out, run1) THEN ProcOutcomes ELSE {SpawnFails} :
         LET cmd0 == IF kwargs # <<>> THEN kwargs[1] ELSE S_docker
             probe == _get_docker_version(cmd0, version_out, format_out, run1, run2)
             gate == IF probe.err # ""
                     THEN [err |-> probe.err, msg |-> NoMsg, can_copy_bothways |-> FALSE]
                     ELSE Gate(probe.value[1])
         IN  /\ docker_cmd' = cmd0
             /\ connected' = BaseInitConnected
             /\ docker_version' = probe.value
             /\ can_copy_bothways' = gate.can_copy_bothways
             /\ phase' = IF gate.err = "" THEN "ready" ELSE "failed"
             /\ last' = Call("__init__", kwargs, gate.err, gate.msg, <<>>,
                             probe.procs, <<>>)
    /\ UNCHANGED <<version_out, format_out, DEFAULT_EXECUTABLE, kwargs, files>>

----------------------------------------------------------------------------
(* Connection._connect and Connection.close *)

\* ConnectionBase._connect, which _connect calls first, does nothing
Base_connect(c) == c

_connect ==
    /\ phase = "ready"
    /\ connected' = (IF ~Base_connect(connected) THEN TRUE ELSE Base_connect(connected))
    /\ last' = Call("_connect", <<>>, "", NoMsg, <<>>, <<>>, <<>>)
    /\ UNCHANGED <<version_out, format_out, DEFAULT_EXECUTABLE, kwargs, files, phase,
                   docker_cmd, docker_version, can_copy_bothways>>

\* mutant: close leaves the flag as it is
close_keeps_flag ==
    /\ phase = "ready"
    /\ connected' = connected
    /\ last' = Call("close", <<>>, "", NoMsg, <<>>, <<>>, <<>>)
    /\ UNCHANGED <<version_out, format_out, DEFAULT_EXECUTABLE, kwargs, files, phase,
                   docker_cmd, docker_version, can_copy_bothways>>

close ==
    /\ phase = "ready"
    /\ connected' = FALSE
    /\ last' = Call("close", <<>>, "", NoMsg, <<>>, <<>>, <<>>)
    /\ UNCHANGED <<version_out, format_out, DEFAULT_EXECUTABLE, kwargs, files, phase,
                   docker_cmd, docker_version, can_copy_bothways>>

----------------------------------------------------------------------------
(* Connection.exec_command *)

\* ConnectionBase.exec_command / put_file / fetch_file, which the methods
\* call first, leave the lifecycle flag as it is
Base_operation(c) == c

\* C.DEFAULT_EXECUTABLE.split()[0] if C.DEFAULT_EXECUTABLE else '/bin/sh'
executable(default) ==
    IF default # <<>> THEN SplitWhitespace(default)[1] ELSE S_bin_sh

\* mutant: the error stream is dropped from the result
CommandResult_partial(run) == <<[rc |-> run.rc, stdout |-> run.stdout, stderr |-> <<>>]>>

\* what exec_command returns for a process that ran
CommandResult(run) == <<[rc |-> run.rc, stdout |-> run.stdout, stderr |-> run.stderr]>>

\* exec_command(cmd, in_data) when the environment answers the spawn with `run`
exec_command_call(cmd, in_data, run) ==
    LET local_cmd == <<docker_cmd, S_exec, S_i, remote_addr,
                       executable(DEFAULT_EXECUTABLE), S_c, cmd>>
        p == Invocation(local_cmd, PipeStdin(in_data), TRUE, run)
    IN  IF ~run.spawned
        THEN Call("exec_command", <<cmd, in_data>>, "OSError", NoMsg, <<>>, <<p>>, <<>>)
        ELSE Call("exec_command", <<cmd, in_data>>, "", NoMsg, CommandResult(run),
                  <<p>>, <<>>)

Commands == {<<"l", "s">>, <<"e", "c", "h", "o", " ", "'", "a", " ", "b", "'">>}
InData == {<<>>, <<"h", "i">>}

exec_command ==
    /\ phase = "ready"
    /\ \E cmd \in Commands, in_data \in InData, run \in ProcOutcomes :
         last' = exec_command_call(cmd, in_data, run)
    /\ connected' = Base_operation(connected)
    /\ UNCHANGED <<version_out, format_out, DEFAULT_EXECUTABLE, kwargs, files, phase,
                   docker_cmd, docker_version, can_copy_bothways>>

----------------------------------------------------------------------------
(* Connection.put_file *)

\* os.path.exists(path)
exists(path) == path \in files

MsgNoFile(in_path) == Msg("file or module does not exist: %s", <<in_path>>)
MsgNoDd == Msg("docker connection requires dd command in the chroot", <<>>)
MsgTransfer(in_path, out_path, stdout, stderr) ==
    Msg("failed to transfer file %s to %s:\n%s\n%s", <<in_path, out_path, stdout, stderr>>)

\* the branch for older docker: dd inside the container, fed from the file
put_file_dd(in_path, out_path, run) ==
    LET args == <<docker_cmd, S_exec, S_i, remote_addr,
                  executable(DEFAULT_EXECUTABLE), S_c,
                  S_dd_of \o out_path \o S_bs \o IntToStr(BUFSIZE)>>
        p == Invocation(args, FileStdin(in_path), TRUE, run)
    IN  IF ~run.spawned
        THEN Call("put_file", <<in_path, out_path>>, "AnsibleError", MsgNoDd, <<>>,
                  <<p>>, <<>>)
        ELSE IF run.rc # 0
        THEN Call("put_file", <<in_path, out_path>>, "AnsibleError",
                  MsgTransfer(in_path, out_path, run.stdout, run.stderr), <<>>,
                  <<p>>, <<>>)
        ELSE Call("put_file", <<in_path, out_path>>, "", NoMsg, <<>>, <<p>>, <<>>)

\* mutant: a failed native copy falls back to the dd branch
put_file_native_retry(in_path, out_path, run) ==
    LET args == <<docker_cmd, S_cp, in_path, remote_addr \o <<":">> \o out_path>>
        p == Invocation(args, NoStdin, FALSE, run)
        again == put_file_dd(in_path, out_path, run)
    IN  IF CheckOutputErr(run) # ""
        THEN [again EXCEPT !.procs = <<p>> \o @]
        ELSE Call("put_file", <<in_path, out_path>>, "", NoMsg, <<>>, <<p>>, <<>>)

\* the native branch: subprocess.check_call(args), which captures nothing
put_file_native(in_path, out_path, run) ==
    LET args == <<docker_cmd, S_cp, in_path, remote_addr \o <<":">> \o out_path>>
        p == Invocation(args, NoStdin, FALSE, run)
    IN  Call("put_file", <<in_path, out_path>>, CheckOutputErr(run), NoMsg, <<>>,
             <<p>>, <<>>)

\* mutant: the existence check made in the dd branch only
put_file_call_late_check(in_path, out_path, run) ==
    IF can_copy_bothways
    THEN put_file_native(in_path, out_path, run)
    ELSE IF ~exists(in_path)
    THEN Call("put_file", <<in_path, out_path>>, "AnsibleFileNotFound",
              MsgNoFile(in_path), <<>>, <<>>, <<>>)
    ELSE put_file_dd(in_path, out_path, run)

put_file_call(in_path, out_path, run) ==
    IF ~exists(in_path)
    THEN Call("put_file", <<in_path, out_path>>, "AnsibleFileNotFound",
              MsgNoFile(in_path), <<>>, <<>>, <<>>)
    ELSE IF can_copy_bothways
    THEN put_file_native(in_path, out_path, run)
    ELSE put_file_dd(in_path, out_path, run)

S_in_txt == <<"/", "t", "m", "p", "/", "i", "n", ".", "t", "x", "t">>
S_missing == <<"/", "t", "m", "p", "/", "n", "o", "n", "e">>
S_remote_txt == <<"/", "c", "/", "i", "n", ".", "t", "x", "t">>
S_remote_sp == <<"/", "c", "/", "a", " ", "b">>

PutSources == {S_in_txt, S_missing}
PutTargets == {S_remote_txt, S_remote_sp}

put_file ==
    /\ phase = "ready"
    /\ \E in_path \in PutSources, out_path \in PutTargets, run \in ProcOutcomes :
         last' = put_file_call(in_path, out_path, run)
    /\ connected' = Base_operation(connected)
    /\ UNCHANGED <<version_out, format_out, DEFAULT_EXECUTABLE, kwargs, files, phase,
                   docker_cmd, docker_version, can_copy_bothways>>

----------------------------------------------------------------------------
(* Connection.fetch_file *)

\* what `docker cp <container>:<in_path> <out_dir>` leaves on the local
\* filesystem: the file, under the name it has in the container, when it
\* exits 0; nothing when it fails
AfterCopy(fs, in_path, out_dir, run) ==
    IF run.spawned /\ run.rc = 0 THEN fs \cup {join(out_dir, basename(in_path))} ELSE fs

\* os.rename(src, dst) on the filesystem fs
AfterRename(fs, src, dst) == (fs \ {src}) \cup {dst}

\* mutant: a rename that does not notice a missing source
rename_err_silent(fs, src) == ""

\* os.rename raises OSError when the source does not exist
rename_err(fs, src) == IF src \in fs THEN "" ELSE "OSError"

\* mutant: the rename made without the comparison
NeedsRename_always(actual_out_path, out_path) == TRUE

\* actual_out_path != out_path
NeedsRename(actual_out_path, out_path) == actual_out_path # out_path

\* fetch_file(in_path, out_path): [call, files]
fetch_file_call(in_path, out_path, run) ==
    LET out_dir == dirname(out_path)
        args == <<docker_cmd, S_cp, remote_addr \o <<":">> \o in_path, out_dir>>
        p == Invocation(args, PipeStdin(<<>>), TRUE, run)
        copied == AfterCopy(files, in_path, out_dir, run)
        actual_out_path == join(out_dir, basename(in_path))
    IN  IF ~run.spawned
        THEN [call |-> Call("fetch_file", <<in_path, out_path>>, "OSError", NoMsg, <<>>,
                            <<p>>, <<>>),
              files |-> files]
        ELSE IF NeedsRename(actual_out_path, out_path)
        THEN IF rename_err(copied, actual_out_path) = ""
             THEN [call |-> Call("fetch_file", <<in_path, out_path>>, "", NoMsg, <<>>,
                                 <<p>>, <<<<actual_out_path, out_path>>>>),
                   files |-> AfterRename(copied, actual_out_path, out_path)]
             ELSE [call |-> Call("fetch_file", <<in_path, out_path>>,
                                 rename_err(copied, actual_out_path), NoMsg,
                                 <<>>, <<p>>, <<<<actual_out_path, out_path>>>>),
                   files |-> copied]
        ELSE [call |-> Call("fetch_file", <<in_path, out_path>>, "", NoMsg, <<>>,
                            <<p>>, <<>>),
              files |-> copied]

S_app_log == <<"/", "c", "/", "a", "p", "p", ".", "l", "o", "g">>
S_out_log == <<"/", "t", "m", "p", "/", "o", "u", "t", ".", "l", "o", "g">>
S_tmp_app_log == <<"/", "t", "m", "p", "/", "a", "p", "p", ".", "l", "o", "g">>
S_rel_app_log == <<"a", "p", "p", ".", "l", "o", "g">>

FetchSources == {S_app_log, S_remote_txt}
FetchTargets == {S_out_log, S_tmp_app_log, S_rel_app_log}

fetch_file ==
    /\ phase = "ready"
    /\ \E in_path \in FetchSources, out_path \in FetchTargets, run \in ProcOutcomes :
         LET r == fetch_file_call(in_path, out_path, run)
         IN  last' = r.call /\ files' = r.files
    /\ connected' = Base_operation(connected)
    /\ UNCHANGED <<version_out, format_out, DEFAULT_EXECUTABLE, kwargs, phase,
                   docker_cmd, docker_version, can_copy_bothways>>

----------------------------------------------------------------------------
(* The environments the models start from *)

S_ce == <<"-", "c", "e">>
S_Client_line == <<"C", "l", "i", "e", "n", "t", " ",
                   "v", "e", "r", "s", "i", "o", "n", ":", " ", "1", ".", "9", "\n">>
\* the output of a docker that prints no 'Server version:' line
S_NewStyle == <<"S", "e", "r", "v", "e", "r", ":", "\n",
                " ", "V", "e", "r", "s", "i", "o", "n", ":", " ", "x", "\n">>

Segs == {<<"0">>, <<"1">>, <<"2">>, <<"3">>, <<"8">>, <<"1", "0">>, <<"r", "c">>}

RECURSIVE JoinDots(_)
JoinDots(segs) ==
    IF Len(segs) = 1 THEN segs[1]
    ELSE segs[1] \o <<".">> \o JoinDots(Tail(segs))

AllVersions ==
    {JoinDots(t) : t \in UNION {[1..n -> Segs] : n \in 1..MaxSegs}}

Suffixed(Vs) == Vs \cup {v \o S_ce : v \in Vs}

\* the pairs (output of `docker version`, output of `docker version --format`)
\* for the versions Vs, in the old and in the new output format, and the
\* outputs no version can be extracted from
ProbeEnvs(Vs) ==
    {<<S_Client_line \o S_Server_version \o <<" ">> \o v \o <<"\n">>, <<>>>> : v \in Vs}
    \cup {<<S_NewStyle, <<"'">> \o v \o <<"'", "\n">>>> : v \in Vs}
    \cup {<<S_NewStyle, <<>>>>,
          <<S_NewStyle, <<"'", "'", "\n">>>>,
          <<<<>>, <<"\n">>>>,
          <<S_Client_line \o S_Server_version \o <<"\n">>, <<"'", "1", ".", "8", ".", "0", "'", "\n">>>>,
          <<S_Server_version \o <<" ", "\n">> \o S_Server_version \o <<" ", "1", ".", "8", ".", "0">>, <<>>>>}

InitCommon ==
    /\ phase = "new"
    /\ docker_cmd = <<>>
    /\ docker_version = <<>>
    /\ can_copy_bothways = FALSE
    /\ connected = FALSE
    /\ last = NoCall

\* versions on both sides of the two thresholds
RepVersions == {<<"1", ".", "2", ".", "9">>, S_1_3, <<"1", ".", "7", ".", "1">>,
                S_1_8_0, <<"1", ".", "1", "0", ".", "0">>}

S_bash_l == <<"/", "b", "i", "n", "/", "b", "a", "s", "h", " ", "-", "l">>
S_podman == <<"p", "o", "d", "m", "a", "n">>

\* the version probe on its own, over every version of the bounded set
InitProbe ==
    /\ \E e \in ProbeEnvs(AllVersions \cup Suffixed(RepVersions)) :
         version_out = e[1] /\ format_out = e[2]
    /\ DEFAULT_EXECUTABLE = <<>>
    /\ kwargs = <<>>
    /\ files = {}
    /\ InitCommon

\* the whole connection, over the representative versions
Init ==
    /\ \E e \in ProbeEnvs(RepVersions) :
         version_out = e[1] /\ format_out = e[2]
    /\ \E cfg \in {<<<<>>, <<>>>>, <<S_bash_l, <<S_podman>>>>} :
         DEFAULT_EXECUTABLE = cfg[1] /\ kwargs = cfg[2]
    /\ files = {S_in_txt}
    /\ InitCommon

Next ==
    \/ __init__
    \/ _connect
    \/ exec_command
    \/ put_file
    \/ fetch_file
    \/ close

Spec == Init /\ [][Next]_vars

NextProbe == __init__

SpecProbe == InitProbe /\ [][NextProbe]_vars


----------------------------------------------------------------------------
(* The claims about the version probe and the capability gate (SpecProbe) *)

S_1_10_0 == <<"1", ".", "1", "0", ".", "0">>
S_1_2_9 == <<"1", ".", "2", ".", "9">>
S_1_7_1 == <<"1", ".", "7", ".", "1">>

\* the dot-segment order of two version strings: the lists of their numeric
\* and alphabetic components, compared component by component
DotSegmentCmp(v, w) == ListCmp(LooseVersionParse(v), LooseVersionParse(w))

\* the constructor has run and the probe returned a non-empty version token
Probed == last.op = "__init__" /\ docker_version # <<>> /\ docker_version[1] # <<>>

UnsupportedRuntimeVersion == last.err = "AnsibleError" /\ last.msg = MsgTooOld

\* RuntimeUnavailable: the binary could not be spawned, or it exited non-zero
RuntimeUnavailable == last.err \in {"OSError", "CalledProcessError"}

\* C1: whenever the probe has returned a version token, the constructor fails,
\* and fails with UnsupportedRuntimeVersion, if and only if the sanitized token
\* is strictly below 1.3 in the dot-segment order; 1.10.0 is above 1.8.0 and
\* not below 1.3, and construction succeeds for it, while it fails for 1.2.9.
C1_GateRejectsExactlyBelowMinimum ==
    Probed =>
      /\ UnsupportedRuntimeVersion <=> DotSegmentCmp(docker_version[1], S_1_3) < 0
      /\ (phase = "failed") <=> UnsupportedRuntimeVersion
      /\ (phase = "ready") <=> ~UnsupportedRuntimeVersion
      /\ docker_version[1] = S_1_10_0 =>
            /\ phase = "ready"
            /\ DotSegmentCmp(docker_version[1], S_1_8_0) > 0
      /\ docker_version[1] = S_1_3 => phase = "ready"
      /\ docker_version[1] = S_1_2_9 => UnsupportedRuntimeVersion

\* construction from a probed 1.10.0 has succeeded
C1_Witness == Probed /\ docker_version[1] = S_1_10_0 /\ phase = "ready"

\* no line of the `docker version` output starts with 'Server version:' and
\* has a third whitespace-separated token
NoLegacyToken ==
    LET lines == SplitOn(version_out, "\n") IN
    \A i \in 1..Len(lines) :
        StartsWith(lines[i], S_Server_version) => Len(SplitWhitespace(lines[i])) < 3

\* the `docker version --format` output is empty once sanitized
NoStructuredToken == _sanitize_version(format_out) = <<>>

\* C10: when no version token can be extracted from either output format,
\* the constructor fails with RuntimeUnavailable, never with another failure
\* and never with a constructed Connection.
C10_NoTokenIsRuntimeUnavailable ==
    (last.op = "__init__" /\ NoLegacyToken /\ NoStructuredToken) =>
        (phase = "failed" /\ RuntimeUnavailable)

----------------------------------------------------------------------------
(* The claims about the operations of a constructed connection (Spec) *)

\* the binary the connection was configured with
ConfiguredBinary == IF kwargs = <<>> THEN S_docker ELSE kwargs[1]

\* the first word of the configured shell, /bin/sh when none is configured
ConfiguredShell ==
    IF DEFAULT_EXECUTABLE = <<>> THEN <<"/", "b", "i", "n", "/", "s", "h">>
    ELSE IF DEFAULT_EXECUTABLE = S_bash_l THEN <<"/", "b", "i", "n", "/", "b", "a", "s", "h">>
    ELSE DEFAULT_EXECUTABLE

\* the one sub-process the last call spawned has run and exited non-zero
ExitedNonZero == Len(last.procs) = 1 /\ last.procs[1].spawned /\ last.procs[1].rc # 0

C3_MissingSourceSpawnsNothing ==
    (last.op = "put_file" /\ last.args[1] \notin files) =>
        /\ last.err = "AnsibleFileNotFound"
        /\ last.procs = <<>>

\* put_file of a missing file on a capable, not connected connection
C3_Witness ==
    /\ last.op = "put_file" /\ last.args[1] \notin files
    /\ can_copy_bothways /\ ~connected

\* C4: a put_file of an existing local file issues exactly one invocation,
\* chosen by the capability flag alone: [binary, cp, local, target:remote]
\* when capable, [binary, exec, -i, target, shell, -c, "dd of=<remote>
\* bs=65536"] fed from the local file when not; never both.
C4_OneInvocationByCapability ==
    (last.op = "put_file" /\ last.args[1] \in files) =>
        /\ Len(last.procs) = 1
        /\ can_copy_bothways =>
              /\ last.procs[1].argv =
                    <<ConfiguredBinary, <<"c", "p">>, last.args[1],
                      remote_addr \o <<":">> \o last.args[2]>>
              /\ last.procs[1].stdin.kind # "file"
        /\ ~can_copy_bothways =>
              /\ last.procs[1].argv =
                    <<ConfiguredBinary, <<"e", "x", "e", "c">>, <<"-", "i">>, remote_addr,
                      ConfiguredShell, <<"-", "c">>,
                      <<"d", "d", " ", "o", "f", "=">> \o last.args[2]
                          \o <<" ", "b", "s", "=", "6", "5", "5", "3", "6">>>>
              /\ last.procs[1].stdin = [kind |-> "file", data |-> last.args[1]]

\* a native copy has failed, and nothing else was tried
C4_Witness ==
    /\ last.op = "put_file" /\ last.args[1] \in files /\ can_copy_bothways
    /\ ExitedNonZero

\* C5: whenever the sub-process of put_file exits non-zero, put_file fails and
\* the failure carries the captured stdout and stderr of that sub-process, on
\* the native path as on the dd path.
C5_TransferFailedCarriesOutput ==
    (last.op = "put_file" /\ ExitedNonZero) =>
        /\ last.err # ""
        /\ Len(last.msg.fmt) = 4
        /\ last.msg.fmt[3] = Exits(last.procs[1].rc).stdout
        /\ last.msg.fmt[4] = Exits(last.procs[1].rc).stderr

\* the path docker cp writes to, and the directory it is given
LandingPath == join(dirname(last.args[2]), basename(last.args[1]))

\* C6: every fetch_file issues exactly one invocation [binary, cp,
\* target:remote, dirname(local)], whatever the capability flag is; once the
\* process ran, it renames dirname(local)/basename(remote) to local if and
\* only if the two paths differ.  For /c/app.log and /tmp/out.log the copy goes
\* to /tmp and /tmp/app.log is renamed to /tmp/out.log; for /tmp/app.log
\* nothing is renamed.
C6_FetchCopiesThenRenamesIfNeeded ==
    last.op = "fetch_file" =>
        /\ Len(last.procs) = 1
        /\ last.procs[1].argv =
              <<ConfiguredBinary, <<"c", "p">>, remote_addr \o <<":">> \o last.args[1],
                dirname(last.args[2])>>
        /\ last.procs[1].spawned =>
              /\ (last.renames # <<>>) <=> (LandingPath # last.args[2])
              /\ last.renames # <<>> => last.renames = <<<<LandingPath, last.args[2]>>>>
        /\ ~last.procs[1].spawned => last.renames = <<>>
        /\ (last.args = <<S_app_log, S_out_log>> /\ last.procs[1].spawned) =>
              /\ last.procs[1].argv[4] = <<"/", "t", "m", "p">>
              /\ last.renames = <<<<S_tmp_app_log, S_out_log>>>>
        /\ (last.args = <<S_app_log, S_tmp_app_log>>) => last.renames = <<>>
        /\ (last.args = <<S_app_log, S_rel_app_log>>) =>
              /\ last.procs[1].argv[4] = <<>>
              /\ last.renames = <<>>

\* a fetch on a connection that cannot copy both ways has renamed the file
C6_Witness ==
    /\ last.op = "fetch_file" /\ ~can_copy_bothways
    /\ last.args = <<S_app_log, S_out_log>> /\ last.err = ""
    /\ last.renames = <<<<S_tmp_app_log, S_out_log>>>> /\ S_out_log \in files

\* C7: a fetch_file whose copy sub-process exits non-zero returns normally.
C7_FailedCopyReturnsNormally ==
    (last.op = "fetch_file" /\ ExitedNonZero) => last.err = ""

\* C7, amended: a fetch_file whose copy sub-process exits non-zero raises no
\* transfer error of its own; it returns normally exactly when the landing
\* path equals the requested path or a file already existed at the landing
\* path, and otherwise fails with the OSError of the rename it attempted.
C7_FailedCopyFailsOnlyAtRename ==
    [][(last'.op = "fetch_file" /\ ExitedNonZero') =>
         LET landing == join(dirname(last'.args[2]), basename(last'.args[1])) IN
         /\ (last'.err = "") <=> (landing = last'.args[2] \/ landing \in files)
         /\ last'.err # "" =>
               /\ last'.err = "OSError"
               /\ last'.renames = <<<<landing, last'.args[2]>>>>
               /\ files' = files]_vars

\* a failed copy left no file, and the rename raised
C7_Witness ==
    /\ last.op = "fetch_file" /\ ExitedNonZero
    /\ last.err = "OSError" /\ last.renames # <<>>
    /\ LandingPath \notin files

\* C8: exec_command invokes one process; when it was spawned the call returns
\* the triple (exit code, stdout, stderr) of that process for every exit code,
\* zero or not; it fails only when the binary cannot be spawned, with OSError
\* (RuntimeUnavailable) and no triple.
C8_ExitCodeIsData ==
    last.op = "exec_command" =>
        /\ Len(last.procs) = 1
        /\ last.procs[1].argv =
              <<ConfiguredBinary, <<"e", "x", "e", "c">>, <<"-", "i">>, remote_addr,
                ConfiguredShell, <<"-", "c">>, last.args[1]>>
        /\ last.procs[1].spawned =>
              /\ last.err = ""
              /\ last.ret = <<[rc |-> last.procs[1].rc,
                               stdout |-> Exits(last.procs[1].rc).stdout,
                               stderr |-> Exits(last.procs[1].rc).stderr]>>
        /\ ~last.procs[1].spawned => (last.err = "OSError" /\ last.ret = <<>>)

\* a command has exited non-zero and the call returned its triple
C8_Witness ==
    /\ last.op = "exec_command" /\ ExitedNonZero
    /\ last.err = "" /\ last.ret # <<>> /\ last.ret[1].rc # 0 /\ last.ret[1].stderr # <<>>

\* C9: the lifecycle flag is false after construction, true after every
\* _connect and false after every close; a _connect right after a _connect,
\* and a close right after a close, change nothing; neither spawns a process;
\* exec_command, put_file and fetch_file leave the flag as it was.
C9_LifecycleFlag ==
    [][/\ (last'.op = "__init__" /\ phase' = "ready") => ~connected'
       /\ last'.op = "_connect" => (connected' /\ last'.procs = <<>>)
       /\ last'.op = "close" => (~connected' /\ last'.procs = <<>>)
       /\ (last.op = "_connect" /\ last'.op = "_connect") => UNCHANGED vars
       /\ (last.op = "close" /\ last'.op = "close") => UNCHANGED vars
       /\ last'.op \in {"exec_command", "put_file", "fetch_file"} =>
             connected' = connected
       /\ last'.op \in {"_connect", "close", "exec_command", "put_file", "fetch_file"} =>
             can_copy_bothways' = can_copy_bothways]_vars

\* a _connect has just run on a constructed connection and the flag is set
C9_Witness == last.op = "_connect" /\ connected /\ phase = "ready"

====
